---------------------------- MODULE Spec2Model ----------------------------
(***************************************************************************)
(* GOST R 34.10-2012 style signatures as implemented by the program        *)
(* variants main.py, main1.py, main_v2.py, main_v3.py (= main_v4.py) and   *)
(* main_v6.py:                                                             *)
(* modular inverse, the group law, double-and-add, key generation, the     *)
(* signing retry loop and verification.                                    *)
(*                                                                         *)
(* Python values are modelled as follows.  A point is a record: None is    *)
(* the point at infinity, Pt(x, y) an affine pair, and Exc(name) stands    *)
(* for an exception that left the function instead of a value.  A modular  *)
(* inverse that raised (or returned Python's None) is the integer NoInv.   *)
(* The 256-bit field is replaced by small curves; every operator computes  *)
(* what the code computes on them, with Python's floor division and        *)
(* sign-of-divisor remainder.                                              *)
(*                                                                         *)
(* A local variable of the code that is read several times is bound as the *)
(* element of a singleton set, CHOOSE out \in {F(v) : v \in {value}} : TRUE, *)
(* which is F(value) with value computed once, as the assignment does.     *)
(***************************************************************************)
EXTENDS Integers, Sequences, FiniteSets, TLC

VARIABLES
    params,      \* the module-level curve constants of the running program
    variant,     \* which program file runs: "main", "v2", "v3", "v6"
    secret_key,  \* DigitalSignature.secret_key / the private-key file
    open_key,    \* DigitalSignature.open_key / the public-key file
    pc,          \* "idle", "keygen" (inside generate_keys' loop), "signing"
    data,        \* the hash of the file being signed, as an integer
    hash_val,    \* the digest value held by the signing call in progress
    draws,       \* random draws made so far by the call in progress
    kg,          \* outcome of the last key-generation call
    sig,         \* outcome of the last signing call
    ver,         \* inputs and outcome of the last verification call
    call,        \* a function of the program applied to arguments, and its result
    frames       \* the local variables of the calls running on one DigitalSignature

vars == <<params, variant, secret_key, open_key, pc, data, hash_val, draws, kg, sig, ver,
          call, frames>>

---------------------------------------------------------------------------
(* Python values *)

None == [kind |-> "None", x |-> 0, y |-> 0]

Pt(x, y) == [kind |-> "pt", x |-> x, y |-> y]

Exc(name) == [kind |-> name, x |-> 0, y |-> 0]

IsExc(P) == P.kind \notin {"None", "pt"}

NoInv == -1

NoKey == -1

\* Python's a // b and a % b (floor division; the remainder has the sign of b)
PyDiv(a, b) == IF b > 0 THEN a \div b ELSE (0 - a) \div (0 - b)

PyMod(a, b) == IF b > 0 THEN a % b ELSE 0 - ((0 - a) % (0 - b))

---------------------------------------------------------------------------
(* Curve parameter sets.  SetA and SetB are valid (G on the curve, of prime
   order q; q < p as in the GOST 256-bit set, and q > p).  SetC repeats the
   defect of main_v3.py, whose q is a copy of p: its G has order 5, not q. *)

SetA == [p |-> 11, a |-> 2, b |-> 7, G |-> Pt(6, 2), q |-> 7]

SetB == [p |-> 5, a |-> 2, b |-> 1, G |-> Pt(0, 1), q |-> 7]

SetC == [p |-> 7, a |-> 1, b |-> 1, G |-> Pt(0, 1), q |-> 7]

ParamSets == {SetA, SetB, SetC}

\* a valid set whose curve has even order 10: (2, 0) is its point of order 2,
\* G has prime order 5
SetD == [p |-> 7, a |-> 1, b |-> 4, G |-> Pt(4, 3), q |-> 5]

\* the parameter sets the arithmetic functions are applied under
ArithParamSets == ParamSets \cup {SetD}

PRIME == params.p

COEFF_A == params.a

COEFF_B == params.b

ORDER == params.q

START_POINT == params.G

---------------------------------------------------------------------------
(* main.py *)

RECURSIVE inverse_loop(_, _, _, _, _)
inverse_loop(a, b, low, high, modulus) ==
    IF low > 1
    THEN CHOOSE out \in
           {inverse_loop(b - a * quotient, a, high - low * quotient, low, modulus) :
              quotient \in {PyDiv(high, low)}} : TRUE
    ELSE PyMod(a, modulus)

\* the loop started from value itself, not from value % modulus
inverse_modulo_unreduced(value, modulus) ==
    IF value = 0 THEN NoInv ELSE inverse_loop(1, 0, value, modulus, modulus)

inverse_modulo(value, modulus) ==
    IF value = 0
    THEN NoInv
    ELSE CHOOSE out \in
           {inverse_loop(1, 0, low, modulus, modulus) :
              low \in {PyMod(value, modulus)}} : TRUE

\* y_new left as computed, without % PRIME
new_point_unreduced(gradient, x1, y1, x2, m) ==
    CHOOSE out \in
      {Pt(x_new, gradient * (x1 - x_new) - y1) :
         x_new \in {PyMod(gradient * gradient - x1 - x2, m)}} : TRUE

\* x_new, y_new of lines 62-64
new_point(gradient, x1, y1, x2, m) ==
    CHOOSE out \in
      {Pt(x_new, PyMod(gradient * (x1 - x_new) - y1, m)) :
         x_new \in {PyMod(gradient * gradient - x1 - x2, m)}} : TRUE

\* the sum without the test for a vertical line (line 57)
curve_point_sum_no_vertical(p1, p2) ==
    IF IsExc(p1) THEN p1
    ELSE IF IsExc(p2) THEN p2
    ELSE IF p1 = None THEN p2
    ELSE IF p2 = None THEN p1
    ELSE CHOOSE out \in
           {IF inv = NoInv
            THEN Exc("ValueError")
            ELSE IF p1 = p2
            THEN new_point(PyMod((3 * p1.x * p1.x + COEFF_A) * inv, PRIME),
                           p1.x, p1.y, p2.x, PRIME)
            ELSE new_point(PyMod((p2.y - p1.y) * inv, PRIME),
                           p1.x, p1.y, p2.x, PRIME) :
              inv \in {IF p1 = p2
                       THEN inverse_modulo(2 * p1.y, PRIME)
                       ELSE inverse_modulo(p2.x - p1.x, PRIME)}} : TRUE

curve_point_sum(p1, p2) ==
    IF IsExc(p1) THEN p1
    ELSE IF IsExc(p2) THEN p2
    ELSE IF p1 = None THEN p2
    ELSE IF p2 = None THEN p1
    ELSE IF p1.x = p2.x /\ PyMod(p1.y + p2.y, PRIME) = 0 THEN None
    ELSE CHOOSE out \in
           {IF inv = NoInv
            THEN Exc("ValueError")
            ELSE IF p1 = p2
            THEN new_point(PyMod((3 * p1.x * p1.x + COEFF_A) * inv, PRIME),
                           p1.x, p1.y, p2.x, PRIME)
            ELSE new_point(PyMod((p2.y - p1.y) * inv, PRIME),
                           p1.x, p1.y, p2.x, PRIME) :
              inv \in {IF p1 = p2
                       THEN inverse_modulo(2 * p1.y, PRIME)
                       ELSE inverse_modulo(p2.x - p1.x, PRIME)}} : TRUE

RECURSIVE multiply_loop(_, _, _)
multiply_loop(factor, current, temp_point) ==
    IF IsExc(current) THEN current
    ELSE IF IsExc(temp_point) THEN temp_point
    ELSE IF factor > 0
    THEN CHOOSE out \in
           {multiply_loop(f, c, t) :
              f \in {factor \div 2},
              c \in {IF factor % 2 = 1
                     THEN curve_point_sum(current, temp_point)
                     ELSE current},
              t \in {curve_point_sum(temp_point, temp_point)}} : TRUE
    ELSE current

\* the accumulator started from the point, not from None
multiply_point_from_point(factor, point) ==
    CHOOSE out \in {multiply_loop(f, P, P) : f \in {factor}, P \in {point}} : TRUE

\* the factor reduced modulo ORDER before the loop
multiply_point_reduced(factor, point) ==
    CHOOSE out \in
      {multiply_loop(f, None, P) : f \in {PyMod(factor, ORDER)}, P \in {point}} : TRUE

multiply_point(factor, point) ==
    CHOOSE out \in {multiply_loop(f, None, P) : f \in {factor}, P \in {point}} : TRUE

---------------------------------------------------------------------------
(* main_v2.py: the recursive inverse and a group law that passes the
   unreduced difference x2 - x1 to it *)

\* gcd, x1, y1 = extended_gcd(b % a, a); x = y1 - (b // a) * x1; y = x1
gcd_unwind(rec, a, b) == <<rec[1], rec[3] - PyDiv(b, a) * rec[2], rec[2]>>

RECURSIVE extended_gcd(_, _)
extended_gcd(a, b) ==
    IF a = 0
    THEN <<b, 0, 1>>
    ELSE CHOOSE out \in
           {gcd_unwind(rec, a, b) :
              rec \in {CHOOSE r \in {extended_gcd(a1, a) : a1 \in {PyMod(b, a)}} : TRUE}} : TRUE

mod_inverse(a, m) ==
    CHOOSE out \in
      {IF res[1] # 1 THEN NoInv ELSE PyMod(PyMod(res[2], m) + m, m) :
         res \in {extended_gcd(a, m)}} : TRUE

\* the addition without the test of line 37 for y1 == -y2 % p
point_add_v2_no_vertical(P, Q) ==
    IF IsExc(P) THEN P
    ELSE IF IsExc(Q) THEN Q
    ELSE IF P = None THEN Q
    ELSE IF Q = None THEN P
    ELSE CHOOSE out \in
           {IF inv = NoInv
            THEN Exc("ValueError")
            ELSE IF P.x = Q.x /\ P.y = Q.y
            THEN new_point(PyMod((3 * P.x * P.x + params.a) * inv, params.p),
                           P.x, P.y, Q.x, params.p)
            ELSE new_point(PyMod((Q.y - P.y) * inv, params.p),
                           P.x, P.y, Q.x, params.p) :
              inv \in {IF P.x = Q.x /\ P.y = Q.y
                       THEN mod_inverse(2 * P.y, params.p)
                       ELSE mod_inverse(Q.x - P.x, params.p)}} : TRUE

point_add_v2(P, Q) ==
    IF IsExc(P) THEN P
    ELSE IF IsExc(Q) THEN Q
    ELSE IF P = None THEN Q
    ELSE IF Q = None THEN P
    ELSE IF P.x = Q.x /\ P.y = PyMod(0 - Q.y, params.p) THEN None
    ELSE CHOOSE out \in
           {IF inv = NoInv
            THEN Exc("ValueError")
            ELSE IF P.x = Q.x /\ P.y = Q.y
            THEN new_point(PyMod((3 * P.x * P.x + params.a) * inv, params.p),
                           P.x, P.y, Q.x, params.p)
            ELSE new_point(PyMod((Q.y - P.y) * inv, params.p),
                           P.x, P.y, Q.x, params.p) :
              inv \in {IF P.x = Q.x /\ P.y = Q.y
                       THEN mod_inverse(2 * P.y, params.p)
                       ELSE mod_inverse(Q.x - P.x, params.p)}} : TRUE

RECURSIVE point_mult_loop_v2(_, _, _)
point_mult_loop_v2(k, result, temp) ==
    IF IsExc(result) THEN result
    ELSE IF IsExc(temp) THEN temp
    ELSE IF k > 0
    THEN CHOOSE out \in
           {point_mult_loop_v2(k2, r2, t2) :
              k2 \in {k \div 2},
              r2 \in {IF k % 2 = 1 THEN point_add_v2(result, temp) ELSE result},
              t2 \in {point_add_v2(temp, temp)}} : TRUE
    ELSE result

point_mult_v2(k, P) ==
    CHOOSE out \in
      {point_mult_loop_v2(k2, None, P2) : k2 \in {PyMod(k, params.q)}, P2 \in {P}} : TRUE

---------------------------------------------------------------------------
(* main_v3.py (main_v4.py has the same functions) *)

point_add_v3(P, Q) ==
    IF IsExc(P) THEN P
    ELSE IF IsExc(Q) THEN Q
    ELSE IF P = None THEN Q
    ELSE IF Q = None THEN P
    ELSE IF P.x = Q.x /\ P.y = PyMod(0 - Q.y, params.p) THEN None
    ELSE IF P.x = Q.x /\ P.y = Q.y /\ P.y = 0 THEN None
    ELSE IF P.x = Q.x /\ P.y # Q.y THEN None
    ELSE CHOOSE out \in
           {IF inv = NoInv
            THEN Exc("ValueError")
            ELSE IF P.x = Q.x /\ P.y = Q.y
            THEN new_point(PyMod((3 * P.x * P.x + params.a) * inv, params.p),
                           P.x, P.y, Q.x, params.p)
            ELSE new_point(PyMod((Q.y - P.y) * inv, params.p),
                           P.x, P.y, Q.x, params.p) :
              inv \in {IF P.x = Q.x /\ P.y = Q.y
                       THEN mod_inverse(2 * P.y, params.p)
                       ELSE mod_inverse(PyMod(Q.x - P.x, params.p), params.p)}} : TRUE

RECURSIVE point_mult_loop_v3(_, _, _)
point_mult_loop_v3(k, result, temp) ==
    IF IsExc(result) THEN result
    ELSE IF IsExc(temp) THEN temp
    ELSE IF k > 0
    THEN CHOOSE out \in
           {point_mult_loop_v3(k2, r2, t2) :
              k2 \in {k \div 2},
              r2 \in {IF k % 2 = 1 THEN point_add_v3(result, temp) ELSE result},
              t2 \in {point_add_v3(temp, temp)}} : TRUE
    ELSE result

point_mult_v3(k, P) ==
    CHOOSE out \in
      {IF k1 = 0 \/ P1 = None
       THEN None
       ELSE point_mult_loop_v3(PyMod(k1, params.q), None, P1) :
         k1 \in {k}, P1 \in {P}} : TRUE

---------------------------------------------------------------------------
(* main1.py: the inverse is the recursive mod_inverse above *)

point_add_main1(P, Q) ==
    IF IsExc(P) THEN P
    ELSE IF IsExc(Q) THEN Q
    ELSE IF P = None THEN Q
    ELSE IF Q = None THEN P
    ELSE IF P.x = Q.x /\ PyMod(P.y + Q.y, params.p) = 0 THEN None
    ELSE IF P = Q /\ P.y = 0 THEN None
    ELSE CHOOSE out \in
           {IF inv = NoInv
            THEN Exc("ValueError")
            ELSE IF P = Q
            THEN new_point(PyMod((3 * P.x * P.x + params.a) * inv, params.p),
                           P.x, P.y, Q.x, params.p)
            ELSE new_point(PyMod((Q.y - P.y) * inv, params.p),
                           P.x, P.y, Q.x, params.p) :
              inv \in {IF P = Q
                       THEN mod_inverse(2 * P.y, params.p)
                       ELSE mod_inverse(PyMod(Q.x - P.x, params.p), params.p)}} : TRUE

RECURSIVE point_mult_loop_main1(_, _, _)
point_mult_loop_main1(k, result, temp) ==
    IF IsExc(result) THEN result
    ELSE IF IsExc(temp) THEN temp
    ELSE IF k > 0
    THEN CHOOSE out \in
           {point_mult_loop_main1(k2, r2, t2) :
              k2 \in {k \div 2},
              r2 \in {IF k % 2 = 1 THEN point_add_main1(result, temp) ELSE result},
              t2 \in {point_add_main1(temp, temp)}} : TRUE
    ELSE result

point_mult_main1(k, P) ==
    CHOOSE out \in
      {point_mult_loop_main1(k2, None, P2) : k2 \in {PyMod(k, params.q)}, P2 \in {P}} : TRUE

\* lines 60-63: the congruence only, the coordinates as they were decoded
is_on_curve(x, y) ==
    PyMod(y * y, params.p) = PyMod(x * x * x + params.a * x + params.b, params.p)

\* lines 186-198, given R: what verify_file prints, or the exception that leaves it
verify_message(R, r) ==
    IF IsExc(R) THEN R.kind
    ELSE IF R = None THEN "infinity"
    ELSE IF PyMod(R.x, params.q) # r THEN "mismatch"
    ELSE "valid"

\* verify_file from the decoded key K on: h is the file hash, r and s the two
\* integers of signature.sig.  The result is the message printed, or
\* "ValueError" when the exception of the point arithmetic leaves the function
verify_file_main1(h, r, s, K) ==
    IF ~is_on_curve(K.x, K.y) THEN "not_on_curve"
    ELSE IF ~(1 <= r /\ r < params.q /\ 1 <= s /\ s < params.q) THEN "out_of_range"
    ELSE CHOOSE out \in
           {IF w = NoInv THEN "no_inverse"
            ELSE CHOOSE m \in
                   {verify_message(R, r) :
                      R \in {CHOOSE sum \in
                               {point_add_main1(P1, P2) :
                                  P1 \in {point_mult_main1(
                                            PyMod(PyMod(h, params.q) * w, params.q),
                                            params.G)},
                                  P2 \in {point_mult_main1(PyMod(r * w, params.q), K)}}
                               : TRUE}} : TRUE :
              w \in {mod_inverse(s, params.q)}} : TRUE

---------------------------------------------------------------------------
(* main_v6.py *)

\* g, y, x = extended_gcd(b % a, a); return (g, x - (b // a) * y, y)
gcd_unwind_v6(rec, a, b) == <<rec[1], rec[3] - PyDiv(b, a) * rec[2], rec[2]>>

RECURSIVE extended_gcd_v6(_, _)
extended_gcd_v6(a, b) ==
    IF a = 0
    THEN <<b, 0, 1>>
    ELSE CHOOSE out \in
           {gcd_unwind_v6(rec, a, b) :
              rec \in {CHOOSE r \in {extended_gcd_v6(a1, a) : a1 \in {PyMod(b, a)}} : TRUE}} : TRUE

inverse_mod(a, m) ==
    CHOOSE out \in
      {IF res[1] # 1 THEN NoInv ELSE PyMod(res[2], m) :
         res \in {extended_gcd_v6(a, m)}} : TRUE

\* x_r, y_r of double_point (lines 75-78)
doubled(lam, x, y, m) ==
    CHOOSE out \in
      {Pt(x_r, PyMod(lam * (x - x_r) - y, m)) :
         x_r \in {PyMod(lam * lam - 2 * x, m)}} : TRUE

double_point(P) ==
    IF IsExc(P) THEN P
    ELSE IF P = None THEN Exc("TypeError")
    ELSE CHOOSE out \in
           {IF y = 0 THEN None
            ELSE CHOOSE res \in
                   {IF inv = NoInv
                    THEN None
                    ELSE doubled(PyMod((3 * x * x + params.a) * inv, params.p),
                                 x, y, params.p) :
                      inv \in {inverse_mod(2 * y, params.p)}} : TRUE :
              x \in {PyMod(P.x, params.p)},
              y \in {PyMod(P.y, params.p)}} : TRUE

\* the chord of add_points (lines 47-57); None when inverse_mod returns None
chord_v6(x_p, y_p, x_q, y_q) ==
    CHOOSE out \in
      {IF inv = NoInv
       THEN None
       ELSE new_point(PyMod((y_q - y_p) * inv, params.p), x_p, y_p, x_q, params.p) :
         inv \in {inverse_mod(x_q - x_p, params.p)}} : TRUE

add_points(P, Q) ==
    IF IsExc(P) THEN P
    ELSE IF IsExc(Q) THEN Q
    ELSE IF P = None THEN Q
    ELSE IF Q = None THEN P
    ELSE CHOOSE out \in
           {IF x_p = x_q /\ y_p # y_q THEN None
            ELSE IF x_p = x_q /\ y_p = y_q THEN double_point(P)
            ELSE chord_v6(x_p, y_p, x_q, y_q) :
              x_p \in {PyMod(P.x, params.p)},
              y_p \in {PyMod(P.y, params.p)},
              x_q \in {PyMod(Q.x, params.p)},
              y_q \in {PyMod(Q.y, params.p)}} : TRUE

RECURSIVE multiply_loop_v6(_, _, _)
multiply_loop_v6(k, result, addend) ==
    IF IsExc(result) THEN result
    ELSE IF IsExc(addend) THEN addend
    ELSE IF k # 0
    THEN CHOOSE out \in
           {multiply_loop_v6(k2, r2, a2) :
              k2 \in {PyDiv(k, 2)},
              r2 \in {IF PyMod(k, 2) = 1 THEN add_points(result, addend) ELSE result},
              a2 \in {double_point(addend)}} : TRUE
    ELSE result

multiply_point_v6(P, k) ==
    CHOOSE out \in {multiply_loop_v6(k1, None, P1) : k1 \in {k}, P1 \in {P}} : TRUE

---------------------------------------------------------------------------
(* Bounds of the model *)

\* file hashes are the integers 0..MaxDigest (0 is the multiple of q among them)
MaxDigest == 4

\* r and s offered to verification range over -SigSlack .. q + SigSlack
SigSlack == 1

\* public keys offered by a third party: G displaced by 0..KeySpread per coordinate
KeySpread == 1

\* draws a retry loop is followed for
MaxDraws == 2

Digests == 0..MaxDigest

SigRange == (0 - SigSlack)..(params.q + SigSlack)

ForeignKeys ==
    {Pt(params.G.x + i, params.G.y + j) : i \in 0..KeySpread, j \in 0..KeySpread}

\* a draw that can be 0: secrets.randbelow(q)
DrawsFromZero == 0..(params.q - 1)

\* secrets.randbelow(q - 1) + 1 and random.randint(1, n - 1)
Draws == 1..(params.q - 1)

---------------------------------------------------------------------------
(* Outcomes of calls *)

KgOut(st, d, Q, n) == [status |-> st, d |-> d, Q |-> Q, draws |-> n]

SigOut(st, e, d, k, r, s) ==
    [status |-> st, e |-> e, d |-> d, k |-> k, r |-> r, s |-> s]

\* one pass of a signing loop: "retry" (continue), "ok" (return r, s), "raise"
Step(st, r, s) == [status |-> st, r |-> r, s |-> s]

\* a verification call: "ret" with the boolean returned, or "raise";
\* arith tells whether the call reached its point arithmetic
Verdict(st, ret, arith) == [status |-> st, ret |-> ret, arith |-> arith]

VerOut(e, r, s, Q, v) ==
    [status |-> v.status, ret |-> v.ret, arith |-> v.arith,
     e |-> e, r |-> r, s |-> s, Q |-> Q]

NoKg == KgOut("none", 0, None, 0)

NoSig == SigOut("none", 0, 0, 0, 0, 0)

NoVer == VerOut(0, 0, 0, None, Verdict("none", FALSE, FALSE))

\* no function has been applied
NoCall ==
    [op |-> "none", a |-> 0, b |-> 0, P |-> None, Q |-> None, n |-> 0, R |-> None,
     msg |-> ""]

\* no call is running
NoFrames == <<>>

---------------------------------------------------------------------------
(* main.py: DigitalSignature *)

\* the digest without the replacement of 0 by 1
digest_main_unmapped(e) == PyMod(e, ORDER)

\* the hash as it is, neither reduced nor remapped
digest_main_raw(e) == e

\* lines 128-130 and 159-161: hash mod ORDER, 0 replaced by 1
digest_main(e) == IF PyMod(e, ORDER) = 0 THEN 1 ELSE PyMod(e, ORDER)

\* the loop body without its test of s_val
signature_from_unchecked(temp_point, d, hv, temp_k) ==
    IF IsExc(temp_point) THEN Step("raise", 0, 0)
    ELSE IF temp_point = None THEN Step("retry", 0, 0)
    ELSE IF PyMod(temp_point.x, ORDER) = 0 THEN Step("retry", 0, 0)
    ELSE Step("ok", PyMod(temp_point.x, ORDER),
              PyMod(PyMod(temp_point.x, ORDER) * d + temp_k * hv, ORDER))

\* lines 134-141, given temp_point
signature_from(temp_point, d, hv, temp_k) ==
    IF IsExc(temp_point) THEN Step("raise", 0, 0)
    ELSE IF temp_point = None THEN Step("retry", 0, 0)
    ELSE CHOOSE out \in
           {IF r_val = 0 THEN Step("retry", 0, 0)
            ELSE CHOOSE st \in
                   {IF s_val # 0 THEN Step("ok", r_val, s_val) ELSE Step("retry", 0, 0) :
                      s_val \in {PyMod(r_val * d + temp_k * hv, ORDER)}} : TRUE :
              r_val \in {PyMod(temp_point.x, ORDER)}} : TRUE

\* one pass of the while loop of generate_signature
generate_signature_pass(d, hv, temp_k) ==
    CHOOSE out \in
      {signature_from(temp_point, d, hv, temp_k) :
         temp_point \in {multiply_point(temp_k, START_POINT)}} : TRUE

\* the comparison dropped: any finite point is accepted
verdict_of_any(result_point, r_val, m) ==
    IF IsExc(result_point) THEN Verdict("raise", FALSE, TRUE)
    ELSE Verdict("ret", result_point # None, TRUE)

\* the x coordinate compared with r_val as it is, without % ORDER
verdict_of_unreduced(result_point, r_val, m) ==
    IF IsExc(result_point) THEN Verdict("raise", FALSE, TRUE)
    ELSE IF result_point = None THEN Verdict("ret", FALSE, TRUE)
    ELSE Verdict("ret", result_point.x = r_val, TRUE)

\* lines 166-168, given result_point
verdict_of(result_point, r_val, m) ==
    IF IsExc(result_point) THEN Verdict("raise", FALSE, TRUE)
    ELSE IF result_point = None THEN Verdict("ret", FALSE, TRUE)
    ELSE Verdict("ret", PyMod(result_point.x, m) = r_val, TRUE)

\* the range test with both ends closed
in_range_closed(r_val, s_val) ==
    0 <= r_val /\ r_val <= ORDER /\ 0 <= s_val /\ s_val <= ORDER

\* line 157: 1 <= r_val < ORDER and 1 <= s_val < ORDER
in_range(r_val, s_val) ==
    1 <= r_val /\ r_val < ORDER /\ 1 <= s_val /\ s_val < ORDER

check_signature(e, r_val, s_val, Q) ==
    IF ~in_range(r_val, s_val)
    THEN Verdict("ret", FALSE, FALSE)
    ELSE CHOOSE out \in
           {IF inverse_hash = NoInv
            THEN Verdict("raise", FALSE, FALSE)
            ELSE CHOOSE v \in
                   {verdict_of(result_point, r_val, ORDER) :
                      result_point \in
                        {CHOOSE sum \in
                           {curve_point_sum(P1, P2) :
                              P1 \in {multiply_point(PyMod(s_val * inverse_hash, ORDER),
                                                     START_POINT)},
                              P2 \in {multiply_point(PyMod((0 - r_val) * inverse_hash, ORDER),
                                                     Q)}} : TRUE}} : TRUE :
              inverse_hash \in {inverse_modulo(digest_main(e), ORDER)}} : TRUE

---------------------------------------------------------------------------
(* main_v2.py *)

\* the signing equation with the sign of private_key * r flipped
classical_s_minus(r, d, h, k) ==
    IF mod_inverse(k, params.q) = NoInv THEN Step("raise", 0, 0)
    ELSE IF PyMod(mod_inverse(k, params.q) * (h - d * r), params.q) # 0
    THEN Step("ok", r, PyMod(mod_inverse(k, params.q) * (h - d * r), params.q))
    ELSE Step("retry", 0, 0)

\* s = (mod_inverse(k, q) * (h + private_key * r)) % q and the test of s
classical_s(r, d, h, k) ==
    CHOOSE out \in
      {IF kinv = NoInv THEN Step("raise", 0, 0)
       ELSE CHOOSE st \in
              {IF s # 0 THEN Step("ok", r, s) ELSE Step("retry", 0, 0) :
                 s \in {PyMod(kinv * (h + d * r), params.q)}} : TRUE :
         kinv \in {mod_inverse(k, params.q)}} : TRUE

\* lines 80-85, given R: R[0] of None is a TypeError
signature_from_v2(R, d, h, k) ==
    IF IsExc(R) THEN Step("raise", 0, 0)
    ELSE IF R = None THEN Step("raise", 0, 0)
    ELSE IF PyMod(R.x, params.q) = 0 THEN Step("retry", 0, 0)
    ELSE classical_s(PyMod(R.x, params.q), d, h, k)

sign_file_pass_v2(d, h, k) ==
    CHOOSE out \in
      {signature_from_v2(R, d, h, k) : R \in {point_mult_v2(k, params.G)}} : TRUE

verify_file_v2(e, r, s, Q) ==
    IF ~(1 <= r /\ r < params.q /\ 1 <= s /\ s < params.q)
    THEN Verdict("ret", FALSE, FALSE)
    ELSE CHOOSE out \in
           {IF w = NoInv
            THEN Verdict("raise", FALSE, FALSE)
            ELSE CHOOSE v \in
                   {verdict_of(R, r, params.q) :
                      R \in
                        {CHOOSE sum \in
                           {point_add_v2(P1, P2) :
                              P1 \in {point_mult_v2(PyMod(PyMod(e, params.q) * w, params.q),
                                                    params.G)},
                              P2 \in {point_mult_v2(PyMod(r * w, params.q), Q)}} : TRUE}} : TRUE :
              w \in {mod_inverse(s, params.q)}} : TRUE

---------------------------------------------------------------------------
(* main_v3.py (and main_v4.py) *)

\* lines 91-98, given R
signature_from_v3(R, d, h, k) ==
    IF IsExc(R) THEN Step("raise", 0, 0)
    ELSE IF R = None THEN Step("retry", 0, 0)
    ELSE IF PyMod(R.x, params.q) = 0 THEN Step("retry", 0, 0)
    ELSE classical_s(PyMod(R.x, params.q), d, h, k)

sign_file_pass_v3(d, h, k) ==
    CHOOSE out \in
      {signature_from_v3(R, d, h, k) : R \in {point_mult_v3(k, params.G)}} : TRUE

verify_file_v3(e, r, s, Q) ==
    IF ~(1 <= r /\ r < params.q /\ 1 <= s /\ s < params.q)
    THEN Verdict("ret", FALSE, FALSE)
    ELSE CHOOSE out \in
           {IF w = NoInv
            THEN Verdict("ret", FALSE, FALSE)
            ELSE CHOOSE v \in
                   {verdict_of(R, r, params.q) :
                      R \in
                        {CHOOSE sum \in
                           {point_add_v3(P1, P2) :
                              P1 \in {point_mult_v3(PyMod(PyMod(e, params.q) * w, params.q),
                                                    params.G)},
                              P2 \in {point_mult_v3(PyMod(r * w, params.q), Q)}} : TRUE}} : TRUE :
              w \in {mod_inverse(s, params.q)}} : TRUE

---------------------------------------------------------------------------
(* main_v6.py *)

hash_file(e) == PyMod(e, params.q)

\* lines 111-117, given R: R[0] of None is a TypeError
signature_from_v6(R, d, e, k) ==
    IF IsExc(R) THEN Step("raise", 0, 0)
    ELSE IF R = None THEN Step("raise", 0, 0)
    ELSE CHOOSE out \in
           {IF r = 0 THEN Step("retry", 0, 0)
            ELSE CHOOSE st \in
                   {IF s = 0 THEN Step("retry", 0, 0) ELSE Step("ok", r, s) :
                      s \in {PyMod(d * r + k * e, params.q)}} : TRUE :
              r \in {PyMod(R.x, params.q)}} : TRUE

sign_file_pass_v6(d, e, k) ==
    CHOOSE out \in
      {signature_from_v6(R, d, e, k) : R \in {multiply_point_v6(params.G, k)}} : TRUE

verify_signature(e, Q, r, s) ==
    CHOOSE out \in
      {IF v = NoInv
       THEN Verdict("ret", FALSE, FALSE)
       ELSE CHOOSE res \in
              {verdict_of(P, r, params.q) :
                 P \in
                   {CHOOSE sum \in
                      {add_points(P1, P2) :
                         P1 \in {multiply_point_v6(params.G, PyMod(s * v, params.q))},
                         P2 \in {multiply_point_v6(Q, PyMod((0 - r) * v, params.q))}} : TRUE}} : TRUE :
         v \in {inverse_mod(hash_file(e), params.q)}} : TRUE

---------------------------------------------------------------------------
(* The programs as a state machine.  A run is one program file under one
   parameter set; its calls are key generation, signing (one action per pass
   of the retry loop) and verification.  A call starts when the outcome of a
   verification before it has been reported. *)

Variants == {"main", "v2", "v3", "v6"}

Init ==
    /\ params \in ParamSets
    /\ variant \in Variants
    /\ secret_key = NoKey
    /\ open_key = None
    /\ pc = "idle"
    /\ data = 0
    /\ hash_val = 0
    /\ draws = 0
    /\ kg = NoKg
    /\ sig = NoSig
    /\ ver = NoVer
    /\ call = NoCall
    /\ frames = NoFrames

\* main.py DigitalSignature.create_keypair: secret_key is assigned before
\* the multiplication, open_key only if the multiplication returns
create_keypair(d) ==
    /\ ver.status = "none"
    /\ variant = "main"
    /\ pc = "idle"
    /\ \E Q \in {multiply_point(d, START_POINT)} :
          /\ secret_key' = d
          /\ open_key' = IF IsExc(Q) THEN open_key ELSE Q
          /\ kg' = KgOut(IF IsExc(Q) THEN "raise" ELSE "ok", d, Q, 1)
    /\ sig' = NoSig
    /\ UNCHANGED <<call, frames, params, variant, pc, data, hash_val, draws, ver>>

\* main_v2.py generate_keypair returns (d, Q) whatever Q is
generate_keypair_v2(d) ==
    /\ ver.status = "none"
    /\ variant = "v2"
    /\ pc = "idle"
    /\ \E Q \in {point_mult_v2(d, params.G)} :
          /\ secret_key' = IF IsExc(Q) THEN secret_key ELSE d
          /\ open_key' = IF IsExc(Q) THEN open_key ELSE Q
          /\ kg' = KgOut(IF IsExc(Q) THEN "raise" ELSE "ok", d, Q, 1)
    /\ sig' = NoSig
    /\ UNCHANGED <<call, frames, params, variant, pc, data, hash_val, draws, ver>>

\* main_v3.py generate_keypair raises ValueError when Q is None
generate_keypair_v3(d) ==
    /\ ver.status = "none"
    /\ variant = "v3"
    /\ pc = "idle"
    /\ \E Q \in {point_mult_v3(d, params.G)} :
          /\ secret_key' = IF IsExc(Q) \/ Q = None THEN secret_key ELSE d
          /\ open_key' = IF IsExc(Q) \/ Q = None THEN open_key ELSE Q
          /\ kg' = KgOut(IF IsExc(Q) \/ Q = None THEN "raise" ELSE "ok", d, Q, 1)
    /\ sig' = NoSig
    /\ UNCHANGED <<call, frames, params, variant, pc, data, hash_val, draws, ver>>

\* main_v6.py generate_keys: one pass of its while loop
generate_keys(d) ==
    /\ ver.status = "none"
    /\ variant = "v6"
    /\ pc \in {"idle", "keygen"}
    /\ draws < MaxDraws
    /\ \E Q \in {multiply_point_v6(params.G, d)} :
          IF IsExc(Q)
          THEN /\ kg' = KgOut("raise", d, Q, draws + 1)
               /\ pc' = "idle"
               /\ draws' = 0
               /\ UNCHANGED <<secret_key, open_key>>
          ELSE IF Q # None
          THEN /\ kg' = KgOut("ok", d, Q, draws + 1)
               /\ secret_key' = d
               /\ open_key' = Q
               /\ pc' = "idle"
               /\ draws' = 0
          ELSE /\ kg' = KgOut("retry", d, Q, draws + 1)
               /\ pc' = "keygen"
               /\ draws' = draws + 1
               /\ UNCHANGED <<secret_key, open_key>>
    /\ sig' = NoSig
    /\ UNCHANGED <<call, frames, params, variant, data, hash_val, ver>>

\* the digest value the signing call computes from the file hash e
sign_digest(e) ==
    IF variant = "main" THEN digest_main(e)
    ELSE IF variant = "v6" THEN hash_file(e)
    ELSE PyMod(e, params.q)

\* a signing call starts: the file is hashed (the private key has been read)
sign_begin(e) ==
    /\ ver.status = "none"
    /\ pc = "idle"
    /\ secret_key # NoKey
    /\ pc' = "signing"
    /\ data' = e
    /\ hash_val' = sign_digest(e)
    /\ draws' = 0
    /\ sig' = NoSig
    /\ UNCHANGED <<call, frames, params, variant, secret_key, open_key, kg, ver>>

sign_pass_of(d, hv, k) ==
    IF variant = "main" THEN generate_signature_pass(d, hv, k)
    ELSE IF variant = "v2" THEN sign_file_pass_v2(d, hv, k)
    ELSE IF variant = "v3" THEN sign_file_pass_v3(d, hv, k)
    ELSE sign_file_pass_v6(d, hv, k)

\* one pass of the signing loop with the nonce k
sign_pass(k) ==
    /\ pc = "signing"
    /\ draws < MaxDraws
    /\ \E st \in {sign_pass_of(secret_key, hash_val, k)} :
          IF st.status = "retry"
          THEN /\ draws' = draws + 1
               /\ UNCHANGED <<pc, data, hash_val, sig>>
          ELSE /\ sig' = SigOut(st.status, data, secret_key, k, st.r, st.s)
               /\ pc' = "idle"
               /\ data' = 0
               /\ hash_val' = 0
               /\ draws' = 0
    /\ UNCHANGED <<call, frames, params, variant, secret_key, open_key, kg, ver>>

verify_of(e, r, s, Q) ==
    IF variant = "main" THEN check_signature(e, r, s, Q)
    ELSE IF variant = "v2" THEN verify_file_v2(e, r, s, Q)
    ELSE IF variant = "v3" THEN verify_file_v3(e, r, s, Q)
    ELSE verify_signature(e, Q, r, s)

\* what a verification call is given: a process that holds no key checks
\* files of any content; after signing, the signer's own file, signature and
\* public key are checked as they are or with one of them altered
VerifyInputs ==
    IF pc # "idle" \/ ver.status # "none"
    THEN {}
    ELSE IF secret_key = NoKey
    THEN Digests \X SigRange \X SigRange \X ForeignKeys
    ELSE IF sig.status = "ok"
    THEN {<<e, sig.r, sig.s, open_key>> : e \in Digests}
         \cup {<<sig.e, r, sig.s, open_key>> : r \in SigRange}
         \cup {<<sig.e, sig.r, s, open_key>> : s \in SigRange}
         \cup {<<sig.e, sig.r, sig.s, Q>> : Q \in ForeignKeys}
    ELSE {}

\* a verification that stores the key it was given in the object
verify_storing_key(in) ==
    /\ \E v \in {verify_of(in[1], in[2], in[3], in[4])} :
          ver' = VerOut(in[1], in[2], in[3], in[4], v)
    /\ open_key' = in[4]
    /\ UNCHANGED <<call, frames, params, variant, secret_key, pc, data, hash_val, draws, kg, sig>>

verify(in) ==
    /\ \E v \in {verify_of(in[1], in[2], in[3], in[4])} :
          ver' = VerOut(in[1], in[2], in[3], in[4], v)
    /\ UNCHANGED <<call, frames, params, variant, secret_key, open_key, pc, data, hash_val, draws, kg, sig>>

\* main() prints the verdict of a verification and the run ends
report ==
    /\ ver.status # "none"
    /\ ver' = NoVer
    /\ UNCHANGED <<call, frames, params, variant, secret_key, open_key, pc, data, hash_val, draws, kg, sig>>

Next ==
    \/ \E d \in Draws : create_keypair(d)
    \/ \E d \in Draws : generate_keypair_v2(d)
    \/ \E d \in Draws : generate_keypair_v3(d)
    \/ \E d \in Draws : generate_keys(d)
    \/ \E e \in Digests : sign_begin(e)
    \/ \E k \in Draws : sign_pass(k)
    \/ \E in \in VerifyInputs : verify(in)
    \/ report

Spec == Init /\ [][Next]_vars

---------------------------------------------------------------------------
(* Reference arithmetic, used only to state properties: the group law by its
   defining congruences, and what "valid curve parameters" means. *)

IsPrime(n) == n > 1 /\ \A i \in 2..(n - 1) : n % i # 0

\* a finite point with reduced coordinates that satisfies y^2 = x^3 + ax + b
OnCurve(P) ==
    /\ P.kind = "pt"
    /\ 0 <= P.x /\ P.x < params.p
    /\ 0 <= P.y /\ P.y < params.p
    /\ (P.y * P.y - (P.x * P.x * P.x + params.a * P.x + params.b)) % params.p = 0

\* the slope is the residue the chord or tangent congruence determines
EcSlope(P, Q) ==
    CHOOSE l \in 0..(params.p - 1) :
        IF P = Q
        THEN (2 * P.y * l - (3 * P.x * P.x + params.a)) % params.p = 0
        ELSE ((Q.x - P.x) * l - (Q.y - P.y)) % params.p = 0

EcThird(l, P, Q) ==
    CHOOSE R \in {Pt(x3, (l * (P.x - x3) - P.y) % params.p) :
                    x3 \in {(l * l - P.x - Q.x) % params.p}} : TRUE

EcAdd(P, Q) ==
    IF P = None THEN Q
    ELSE IF Q = None THEN P
    ELSE IF P.x = Q.x /\ (P.y + Q.y) % params.p = 0 THEN None
    ELSE CHOOSE R \in {EcThird(l, P, Q) : l \in {EcSlope(P, Q)}} : TRUE

RECURSIVE EcMul(_, _)
EcMul(d, P) ==
    IF d = 0 THEN None
    ELSE CHOOSE R \in {EcAdd(prev, P) : prev \in {EcMul(d - 1, P)}} : TRUE

\* p an odd prime, a non-singular curve, G on it, of prime order q
ValidParams ==
    /\ params.p > 2
    /\ IsPrime(params.p)
    /\ (4 * params.a * params.a * params.a + 27 * params.b * params.b) % params.p # 0
    /\ OnCurve(params.G)
    /\ IsPrime(params.q)
    /\ EcMul(params.q, params.G) = None

\* the public key the running program computes for the private key d
PublicKeyOf(d) ==
    IF variant = "main" THEN multiply_point(d, START_POINT)
    ELSE IF variant = "v2" THEN point_mult_v2(d, params.G)
    ELSE IF variant = "v3" THEN point_mult_v3(d, params.G)
    ELSE multiply_point_v6(params.G, d)

\* a signing call has returned (r, s) and a verification call has run
SignedAndVerified == sig.status = "ok" /\ ver.status # "none"

\* the verification was given the signed file, the signature returned and
\* the signer's public key
HonestInput ==
    /\ SignedAndVerified
    /\ ver.e = sig.e /\ ver.r = sig.r /\ ver.s = sig.s
    /\ ver.Q = PublicKeyOf(sig.d)

\* the verification was given the signer's public key and the signed triple
\* with exactly one of the digest (mod q), r and s replaced, r and s in [1, q)
TamperedInput ==
    /\ SignedAndVerified
    /\ ver.Q = PublicKeyOf(sig.d)
    /\ ver.r \in 1..(params.q - 1)
    /\ ver.s \in 1..(params.q - 1)
    /\ \/ ver.e % params.q # sig.e % params.q /\ ver.r = sig.r /\ ver.s = sig.s
       \/ ver.e = sig.e /\ ver.r # sig.r /\ ver.s = sig.s
       \/ ver.e = sig.e /\ ver.r = sig.r /\ ver.s # sig.s

OutOfRange == ~(ver.r \in 1..(params.q - 1) /\ ver.s \in 1..(params.q - 1))

---------------------------------------------------------------------------
(* The arithmetic functions applied on their own: a function is called with
   arguments drawn from bounded sets, and returns before the next call. *)

\* moduli are 2..MaxModulus
MaxModulus == 12

\* values to invert are -MaxValue..MaxValue
MaxValue == 25

\* scalars are 0..MaxScalar
MaxScalar == 15

Moduli == 2..MaxModulus

Values == (0 - MaxValue)..MaxValue

Scalars == 0..MaxScalar

\* the affine points of the curve, with reduced coordinates
CurvePoints ==
    {P \in {Pt(x, y) : x \in 0..(params.p - 1), y \in 0..(params.p - 1)} : OnCurve(P)}

\* what a point function is applied to: None, the points of the curve, and
\* pairs next to G, some of them off the curve
ArithPoints == {None} \cup CurvePoints \cup ForeignKeys

\* a coordinate read from 32 bytes can exceed p: up to KeyWrap multiples of p more
KeyWrap == 1

\* public keys as decoded from public_key.pem: G and the pairs next to it, each
\* coordinate as it is or with multiples of p added
DecodedKeys ==
    {Pt(K.x + i * params.p, K.y + j * params.p) :
       K \in ForeignKeys, i \in 0..KeyWrap, j \in 0..KeyWrap}

\* f(a, b) returned the integer n, or NoInv where it raised or returned None
AppliedInt(op, a, b, n) ==
    [op |-> op, a |-> a, b |-> b, P |-> None, Q |-> None, n |-> n, R |-> None,
     msg |-> ""]

\* f(P, Q) or f(a, P) returned the point R, or R is the exception it raised
AppliedPt(op, a, P, Q, R) ==
    [op |-> op, a |-> a, b |-> 0, P |-> P, Q |-> Q, n |-> 0, R |-> R,
     msg |-> ""]

ArithInit ==
    /\ params \in ArithParamSets
    /\ variant = "main"
    /\ secret_key = NoKey
    /\ open_key = None
    /\ pc = "idle"
    /\ data = 0
    /\ hash_val = 0
    /\ draws = 0
    /\ kg = NoKg
    /\ sig = NoSig
    /\ ver = NoVer
    /\ call = NoCall
    /\ frames = NoFrames

\* a call leaves everything but the record of the call as it was
OnlyCall ==
    UNCHANGED <<params, variant, secret_key, open_key, pc, data, hash_val, draws,
                kg, sig, ver, frames>>

call_inverse_modulo(v, m) ==
    /\ call = NoCall
    /\ call' = AppliedInt("inverse_modulo", v, m, inverse_modulo(v, m))
    /\ OnlyCall

call_mod_inverse(v, m) ==
    /\ call = NoCall
    /\ call' = AppliedInt("mod_inverse", v, m, mod_inverse(v, m))
    /\ OnlyCall

call_inverse_mod(v, m) ==
    /\ call = NoCall
    /\ call' = AppliedInt("inverse_mod", v, m, inverse_mod(v, m))
    /\ OnlyCall

call_curve_point_sum(P, Q) ==
    /\ call = NoCall
    /\ call' = AppliedPt("curve_point_sum", 0, P, Q, curve_point_sum(P, Q))
    /\ OnlyCall

call_point_add_main1(P, Q) ==
    /\ call = NoCall
    /\ call' = AppliedPt("point_add_main1", 0, P, Q, point_add_main1(P, Q))
    /\ OnlyCall

call_point_add_v2(P, Q) ==
    /\ call = NoCall
    /\ call' = AppliedPt("point_add_v2", 0, P, Q, point_add_v2(P, Q))
    /\ OnlyCall

call_point_add_v3(P, Q) ==
    /\ call = NoCall
    /\ call' = AppliedPt("point_add_v3", 0, P, Q, point_add_v3(P, Q))
    /\ OnlyCall

call_add_points(P, Q) ==
    /\ call = NoCall
    /\ call' = AppliedPt("add_points", 0, P, Q, add_points(P, Q))
    /\ OnlyCall

call_multiply_point(k, P) ==
    /\ call = NoCall
    /\ call' = AppliedPt("multiply_point", k, P, None, multiply_point(k, P))
    /\ OnlyCall

call_point_mult_main1(k, P) ==
    /\ call = NoCall
    /\ call' = AppliedPt("point_mult_main1", k, P, None, point_mult_main1(k, P))
    /\ OnlyCall

call_point_mult_v3(k, P) ==
    /\ call = NoCall
    /\ call' = AppliedPt("point_mult_v3", k, P, None, point_mult_v3(k, P))
    /\ OnlyCall

call_multiply_point_v6(P, k) ==
    /\ call = NoCall
    /\ call' = AppliedPt("multiply_point_v6", k, P, None, multiply_point_v6(P, k))
    /\ OnlyCall

\* main1.py verify_file returns None, or raises; msg is what it printed
call_verify_file_main1(h, r, s, K) ==
    /\ call = NoCall
    /\ \E m \in {verify_file_main1(h, r, s, K)} :
          call' = [op |-> "verify_file_main1", a |-> r, b |-> s, P |-> K, Q |-> None,
                   n |-> h, R |-> IF m = "ValueError" THEN Exc(m) ELSE None, msg |-> m]
    /\ OnlyCall

\* the caller takes the result
call_return ==
    /\ call # NoCall
    /\ call' = NoCall
    /\ OnlyCall

ArithNext ==
    \/ \E v \in Values, m \in Moduli : call_inverse_modulo(v, m)
    \/ \E v \in Values, m \in Moduli : call_mod_inverse(v, m)
    \/ \E v \in Values, m \in Moduli : call_inverse_mod(v, m)
    \/ \E P \in ArithPoints, Q \in ArithPoints : call_curve_point_sum(P, Q)
    \/ \E P \in ArithPoints, Q \in ArithPoints : call_point_add_main1(P, Q)
    \/ \E P \in ArithPoints, Q \in ArithPoints : call_point_add_v2(P, Q)
    \/ \E P \in ArithPoints, Q \in ArithPoints : call_point_add_v3(P, Q)
    \/ \E P \in ArithPoints, Q \in ArithPoints : call_add_points(P, Q)
    \/ \E k \in Scalars, P \in ArithPoints : call_multiply_point(k, P)
    \/ \E k \in Scalars, P \in ArithPoints : call_point_mult_main1(k, P)
    \/ \E k \in Scalars, P \in ArithPoints : call_point_mult_v3(k, P)
    \/ \E k \in Scalars, P \in ArithPoints : call_multiply_point_v6(P, k)
    \/ call_return

ArithSpec == ArithInit /\ [][ArithNext]_vars

\* main1.py verify_file applied to the contents of public_key.pem and
\* signature.sig and the hash of the file
VerifyFileNext ==
    \/ \E h \in Digests, r \in SigRange, s \in SigRange, K \in DecodedKeys :
          call_verify_file_main1(h, r, s, K)
    \/ call_return

VerifyFileSpec == ArithInit /\ [][VerifyFileNext]_vars

---------------------------------------------------------------------------
(* main.py: calls of generate_signature and check_signature on one
   DigitalSignature object, run by several threads and interleaved statement
   by statement.  The object and the module constants are shared; the names a
   call assigns are its own. *)

\* threads that call into the object
NumCalls == 2

\* file hashes of these calls are 1..MaxConcDigest
MaxConcDigest == 2

\* r and s offered to check_signature here are 0..MaxConcSig
MaxConcSig == 2

\* private keys drawn for the shared object are 1..MaxConcKey
MaxConcKey == 2

Calls == 1..NumCalls

ConcKeys == 1..MaxConcKey

ConcDigests == 1..MaxConcDigest

ConcSig == 0..MaxConcSig

\* the local names of generate_signature and check_signature
NoLocals ==
    [hash_val |-> 0, temp_k |-> 0, temp_point |-> None, r_val |-> 0, s_val |-> 0,
     inverse_hash |-> 0, u1 |-> 0, u2 |-> 0, P1 |-> None, P2 |-> None,
     result_point |-> None]

\* what a call has returned or raised; for generate_signature, how its latest
\* pass of the loop ended and with which nonce
Out(st, ret, arith, k, r, s) ==
    [status |-> st, ret |-> ret, arith |-> arith, k |-> k, r |-> r, s |-> s]

NoOut == Out("none", FALSE, FALSE, 0, 0, 0)

\* a thread outside any call
IdleFrame ==
    [fn |-> "none", pc |-> "idle", data |-> 0, r |-> 0, s |-> 0, Q |-> None,
     out |-> NoOut, mixed |-> FALSE, loc |-> NoLocals]

\* all locals in the frame of the first call
frame_of_shared(i) == 1

\* a call's locals are in the frame of that call
frame_of(i) == i

Loc(i) == frames[frame_of(i)].loc

\* another thread is inside a call
OthersRunning(i) == \E j \in Calls \ {i} : frames[j].pc \notin {"idle", "done"}

\* thread i executes a statement: its position, its outcome and its locals
Stepped(i, pcv, outv, L) ==
    frames' = [frames EXCEPT ![i].pc = pcv,
                             ![i].out = outv,
                             ![i].mixed = @ \/ OthersRunning(i),
                             ![frame_of(i)].loc = L]

\* a call assigns nothing of the object or of the module
OnlyFrames ==
    UNCHANGED <<params, variant, secret_key, open_key, pc, data, hash_val, draws,
                kg, sig, ver, call>>

ConcInit ==
    /\ params \in ParamSets
    /\ variant = "main"
    /\ secret_key = NoKey
    /\ open_key = None
    /\ pc = "idle"
    /\ data = 0
    /\ hash_val = 0
    /\ draws = 0
    /\ kg = NoKg
    /\ sig = NoSig
    /\ ver = NoVer
    /\ call = NoCall
    /\ frames = [i \in Calls |-> IdleFrame]

\* create_keypair, while no call is inside the object
conc_create_keypair(d) ==
    /\ \A i \in Calls : frames[i].pc = "idle"
    /\ create_keypair(d)

\* thread i calls generate_signature(data)
begin_generate_signature(i, e) ==
    /\ frames[i].pc = "idle"
    /\ secret_key # NoKey
    /\ frames' = [frames EXCEPT ![i] = [IdleFrame EXCEPT !.fn = "generate_signature",
                                                          !.pc = "hash",
                                                          !.data = e,
                                                          !.loc = frames[i].loc]]
    /\ OnlyFrames

\* thread i calls check_signature(data, (r, s), open_key)
begin_check_signature(i, e, r, s, Q) ==
    /\ frames[i].pc = "idle"
    /\ secret_key # NoKey
    /\ frames' = [frames EXCEPT ![i] = [IdleFrame EXCEPT !.fn = "check_signature",
                                                          !.pc = "range",
                                                          !.data = e,
                                                          !.r = r,
                                                          !.s = s,
                                                          !.Q = Q,
                                                          !.loc = frames[i].loc]]
    /\ OnlyFrames

\* lines 128-130
sign_hash(i) ==
    /\ frames[i].fn = "generate_signature"
    /\ frames[i].pc = "hash"
    /\ Stepped(i, "draw", frames[i].out,
               [Loc(i) EXCEPT !.hash_val = digest_main(frames[i].data)])
    /\ OnlyFrames

\* lines 132-133
sign_draw(i, k) ==
    /\ frames[i].fn = "generate_signature"
    /\ frames[i].pc = "draw"
    /\ \E T \in {multiply_point(k, START_POINT)} :
          IF IsExc(T)
          THEN Stepped(i, "done", Out("raise", FALSE, FALSE, k, 0, 0),
                       [Loc(i) EXCEPT !.temp_k = k])
          ELSE Stepped(i, "r", frames[i].out,
                       [Loc(i) EXCEPT !.temp_k = k, !.temp_point = T])
    /\ OnlyFrames

\* lines 134-138
sign_r(i) ==
    /\ frames[i].fn = "generate_signature"
    /\ frames[i].pc = "r"
    /\ \E L \in {Loc(i)} :
          IF L.temp_point = None
          THEN Stepped(i, "draw", Out("retry", FALSE, FALSE, L.temp_k, 0, 0), L)
          ELSE \E r_val \in {PyMod(L.temp_point.x, ORDER)} :
                 IF r_val = 0
                 THEN Stepped(i, "draw", Out("retry", FALSE, FALSE, L.temp_k, 0, 0),
                              [L EXCEPT !.r_val = r_val])
                 ELSE Stepped(i, "s", frames[i].out, [L EXCEPT !.r_val = r_val])
    /\ OnlyFrames

\* lines 139-142
sign_s(i) ==
    /\ frames[i].fn = "generate_signature"
    /\ frames[i].pc = "s"
    /\ \E L \in {Loc(i)} :
       \E s_val \in {PyMod(L.r_val * secret_key + L.temp_k * L.hash_val, ORDER)} :
          IF s_val # 0
          THEN Stepped(i, "done", Out("ok", FALSE, FALSE, L.temp_k, L.r_val, s_val),
                       [L EXCEPT !.s_val = s_val])
          ELSE Stepped(i, "draw", Out("retry", FALSE, FALSE, L.temp_k, 0, 0),
                       [L EXCEPT !.s_val = s_val])
    /\ OnlyFrames

\* lines 156-158
check_range(i) ==
    /\ frames[i].fn = "check_signature"
    /\ frames[i].pc = "range"
    /\ \E L \in {[Loc(i) EXCEPT !.r_val = frames[i].r, !.s_val = frames[i].s]} :
          IF ~in_range(L.r_val, L.s_val)
          THEN Stepped(i, "done", Out("ret", FALSE, FALSE, 0, 0, 0), L)
          ELSE Stepped(i, "hash", frames[i].out, L)
    /\ OnlyFrames

\* lines 159-161
check_hash(i) ==
    /\ frames[i].fn = "check_signature"
    /\ frames[i].pc = "hash"
    /\ Stepped(i, "inverse", frames[i].out,
               [Loc(i) EXCEPT !.hash_val = digest_main(frames[i].data)])
    /\ OnlyFrames

\* lines 162-164
check_inverse(i) ==
    /\ frames[i].fn = "check_signature"
    /\ frames[i].pc = "inverse"
    /\ \E L \in {Loc(i)} :
       \E inverse_hash \in {inverse_modulo(L.hash_val, ORDER)} :
          IF inverse_hash = NoInv
          THEN Stepped(i, "done", Out("raise", FALSE, FALSE, 0, 0, 0), L)
          ELSE Stepped(i, "mul1", frames[i].out,
                       [L EXCEPT !.inverse_hash = inverse_hash,
                                 !.u1 = PyMod(L.s_val * inverse_hash, ORDER),
                                 !.u2 = PyMod((0 - L.r_val) * inverse_hash, ORDER)])
    /\ OnlyFrames

\* line 165, first argument
check_mul1(i) ==
    /\ frames[i].fn = "check_signature"
    /\ frames[i].pc = "mul1"
    /\ \E L \in {Loc(i)} :
       \E P1 \in {multiply_point(L.u1, START_POINT)} :
          IF IsExc(P1)
          THEN Stepped(i, "done", Out("raise", FALSE, TRUE, 0, 0, 0), L)
          ELSE Stepped(i, "mul2", frames[i].out, [L EXCEPT !.P1 = P1])
    /\ OnlyFrames

\* line 165, second argument
check_mul2(i) ==
    /\ frames[i].fn = "check_signature"
    /\ frames[i].pc = "mul2"
    /\ \E L \in {Loc(i)} :
       \E P2 \in {multiply_point(L.u2, frames[i].Q)} :
          IF IsExc(P2)
          THEN Stepped(i, "done", Out("raise", FALSE, TRUE, 0, 0, 0), L)
          ELSE Stepped(i, "sum", frames[i].out, [L EXCEPT !.P2 = P2])
    /\ OnlyFrames

\* line 165, the sum
check_sum(i) ==
    /\ frames[i].fn = "check_signature"
    /\ frames[i].pc = "sum"
    /\ \E L \in {Loc(i)} :
       \E result_point \in {curve_point_sum(L.P1, L.P2)} :
          IF IsExc(result_point)
          THEN Stepped(i, "done", Out("raise", FALSE, TRUE, 0, 0, 0), L)
          ELSE Stepped(i, "ret", frames[i].out, [L EXCEPT !.result_point = result_point])
    /\ OnlyFrames

\* lines 166-168
check_ret(i) ==
    /\ frames[i].fn = "check_signature"
    /\ frames[i].pc = "ret"
    /\ \E L \in {Loc(i)} :
          IF L.result_point = None
          THEN Stepped(i, "done", Out("ret", FALSE, TRUE, 0, 0, 0), L)
          ELSE Stepped(i, "done",
                       Out("ret", PyMod(L.result_point.x, ORDER) = L.r_val, TRUE, 0, 0, 0),
                       L)
    /\ OnlyFrames

\* the caller takes the result; the frame is gone
call_done(i) ==
    /\ frames[i].pc = "done"
    /\ frames' = [frames EXCEPT ![i] = IdleFrame]
    /\ OnlyFrames

ConcNext ==
    \/ \E d \in ConcKeys \cap Draws : conc_create_keypair(d)
    \/ \E i \in Calls, e \in ConcDigests : begin_generate_signature(i, e)
    \/ \E i \in Calls, e \in ConcDigests, r \in ConcSig, s \in ConcSig :
          begin_check_signature(i, e, r, s, open_key)
    \/ \E i \in Calls : sign_hash(i)
    \/ \E i \in Calls, k \in Draws : sign_draw(i, k)
    \/ \E i \in Calls : sign_r(i)
    \/ \E i \in Calls : sign_s(i)
    \/ \E i \in Calls : check_range(i)
    \/ \E i \in Calls : check_hash(i)
    \/ \E i \in Calls : check_inverse(i)
    \/ \E i \in Calls : check_mul1(i)
    \/ \E i \in Calls : check_mul2(i)
    \/ \E i \in Calls : check_sum(i)
    \/ \E i \in Calls : check_ret(i)
    \/ \E i \in Calls : call_done(i)

ConcSpec == ConcInit /\ [][ConcNext]_vars

---------------------------------------------------------------------------
(* Properties *)

\* C1: under valid curve parameters, main.py check_signature returns True
\* for the data, the pair generate_signature returned for it (whatever the
\* digest, one that reduces to 0 mod q included, and whatever nonce the loop
\* accepted) and the public key multiply_point(d, START_POINT).
C1_RoundTripMain ==
    (variant = "main" /\ HonestInput /\ ValidParams)
        => (ver.status = "ret" /\ ver.ret)

\* C1 case: a file whose digest reduces to 0 was signed and then verified
C1_Witness ==
    /\ variant = "main" /\ HonestInput /\ ValidParams
    /\ sig.e % params.q = 0
    /\ ver.ret

\* C2: under valid curve parameters, main_v3.py / main_v4.py verify_file
\* accepts the pair sign_file returned, for every private key, every digest
\* (h = 0 included) and every accepted nonce, with the key point_mult(d, G).
C2_RoundTripClassical ==
    (variant = "v3" /\ HonestInput /\ ValidParams)
        => (ver.status = "ret" /\ ver.ret)

\* C2 case: h = 0, so u1 = 0 and point_mult(u1, G) is None
C2_Witness ==
    /\ variant = "v3" /\ HonestInput /\ ValidParams
    /\ PyMod(sig.e, params.q) = 0
    /\ point_mult_v3(0, params.G) = None
    /\ ver.ret

\* C3: under valid curve parameters, main_v6.py sign_file returns a pair
\* without raising for every d, every digest (e = 0 included) and every
\* nonce, and verify_signature returns True for that pair under the key
\* multiply_point(G, d).
C3_RoundTripV6 ==
    (variant = "v6" /\ ValidParams) =>
        /\ sig.status # "raise"
        /\ HonestInput => (ver.status = "ret" /\ ver.ret)

\* C4: main.py check_signature and main_v3.py verify_file return False,
\* raise nothing and do no point arithmetic when r or s is outside [1, q),
\* whatever the message and the public key.
C4_OutOfRangeRejected ==
    (variant \in {"main", "v3"} /\ ver.status # "none" /\ OutOfRange)
        => (ver.status = "ret" /\ ~ver.ret /\ ~ver.arith)

\* C4 case: s = q with r in range, a key that is not on the curve
C4_Witness ==
    /\ variant = "main" /\ ver.status = "ret"
    /\ ver.s = params.q /\ ver.r \in 1..(params.q - 1)
    /\ ~OnCurve(ver.Q)
    /\ ~ver.ret

\* C5: main_v6.py verify_signature returns False when r or s is outside
\* [1, n): for s = 0, r = 0, negative values, and (r, s + n) with (r, s) a
\* valid signature.
C5_OutOfRangeRejectedV6 ==
    (variant = "v6" /\ ver.status # "none" /\ OutOfRange)
        => (ver.status = "ret" /\ ~ver.ret)

\* C6: main.py check_signature returns True or False for every pair (r, s)
\* and every public key given as a pair of integers, points off the curve
\* included; no exception reaches the caller.
C6_VerifyTotalMain ==
    (variant = "main" /\ ver.status # "none") => ver.status = "ret"

C8_SignatureInRange ==
    (variant \in {"main", "v3", "v6"} /\ sig.status = "ok")
        => (sig.r \in 1..(params.q - 1) /\ sig.s \in 1..(params.q - 1))

\* C8 case: a signature was returned with the largest s
C8_Witness ==
    /\ variant \in {"main", "v3", "v6"} /\ sig.status = "ok"
    /\ sig.s = params.q - 1
    /\ ver.status = "none"

\* C9: after main.py create_keypair or main_v3.py generate_keypair completes
\* under valid curve parameters, 1 <= d < q, the public point is d*G, it is
\* not the Identity, and it is on the curve with coordinates in [0, p).
C9_KeyPairInvariant ==
    (variant \in {"main", "v3"} /\ kg.status = "ok" /\ ValidParams) =>
        /\ secret_key = kg.d /\ open_key = kg.Q
        /\ 1 <= secret_key /\ secret_key < params.q
        /\ open_key = EcMul(secret_key, params.G)
        /\ open_key # None
        /\ OnCurve(open_key)

\* C9 case: key generation completed with the largest private key
C9_Witness ==
    /\ variant \in {"main", "v3"} /\ kg.status = "ok" /\ ValidParams
    /\ secret_key = params.q - 1
    /\ OnCurve(open_key)
    /\ sig.status = "none"

\* C10: when d*G evaluates to the Identity, key generation reports an error:
\* main.py create_keypair and main_v2.py generate_keypair store or return no
\* key pair whose public point is the Identity, and main_v6.py generate_keys
\* does not silently retry.
C10_DegenerateKeyReported ==
    (variant \in {"main", "v2", "v6"} /\ kg.status # "none" /\ kg.Q = None)
        => (kg.status = "raise" /\ open_key # None)

\* v and m have no common divisor above 1 (m >= 2)
Coprime(v, m) == \A g \in 2..m : ~(v % g = 0 /\ m % g = 0)

\* n is the inverse of v modulo m, reduced into [0, m)
IsInverse(n, v, m) == 0 <= n /\ n < m /\ (v * n) % m = 1

\* C11: main.py inverse_modulo(v, m), for every modulus m >= 2 and every
\* integer v coprime to m (negative v and v >= m included), returns w with
\* 0 <= w < m and (v * w) mod m = 1.
C11_InverseModuloCorrect ==
    (call.op = "inverse_modulo" /\ Coprime(call.a, call.b))
        => IsInverse(call.n, call.a, call.b)

\* C11 case: a negative value, below -m, was inverted modulo a composite m
C11_Witness ==
    /\ call.op = "inverse_modulo" /\ Coprime(call.a, call.b)
    /\ call.a < 0 - call.b
    /\ ~IsPrime(call.b)
    /\ call.n > 1

\* C12: main.py inverse_modulo(v, m) fails with an error, and returns no
\* number, whenever gcd(v, m) # 1: for a non-zero multiple of m and for a v
\* that shares a proper factor with a composite m.
C12_InverseModuloRaises ==
    (call.op = "inverse_modulo" /\ ~Coprime(call.a, call.b)) => call.n = NoInv

\* C13: the recursive mod_inverse(v, m) of main1.py and main_v2..v5 returns w
\* with 0 <= w < m and (v * w) mod m = 1 for every integer v coprime to m,
\* negative v included, and raises ValueError exactly when gcd(v, m) # 1.
C13_ModInverseCorrect ==
    call.op = "mod_inverse" =>
        IF Coprime(call.a, call.b)
        THEN IsInverse(call.n, call.a, call.b)
        ELSE call.n = NoInv

\* the additions of main.py, main1.py, main_v2.py, main_v3.py and main_v6.py
AddOps == {"curve_point_sum", "point_add_main1", "point_add_v2", "point_add_v3",
           "add_points"}

\* (x, (-y) mod p)
Negated(P) == Pt(P.x, PyMod(0 - P.y, params.p))

\* C14: in every variant's addition, add(Identity, Q) = Q, add(P, Identity) = P,
\* and add(P, (x_P, (-y_P) mod p)) = Identity for every affine P of the curve,
\* a P with y_P = 0 included.
C14_IdentityAndInverseLaws ==
    call.op \in AddOps =>
        /\ call.P = None => call.R = call.Q
        /\ call.Q = None => call.R = call.P
        /\ (call.P \in CurvePoints /\ call.Q = Negated(call.P)) => call.R = None

\* a point of order two added to itself, which is its own inverse
C14_Witness ==
    /\ call.op \in {"curve_point_sum", "point_add_v3", "add_points"}
    /\ call.P \in CurvePoints
    /\ call.P.y = 0
    /\ call.Q = Negated(call.P)
    /\ call.R = None

\* the scalar multiplications of main.py, main1.py and main_v3.py
MultOps == {"multiply_point", "point_mult_main1", "point_mult_v3"}

\* C15: in main.py multiply_point, main1.py point_mult and main_v3.py
\* point_mult, multiplication by 0 returns the Identity for every point, and
\* multiplication of the Identity returns the Identity for every k >= 0; neither
\* raises.
C15_ZeroAndIdentityMultiples ==
    (call.op \in MultOps /\ (call.a = 0 \/ call.P = None)) => call.R = None

\* the Identity multiplied by a scalar of several bits
C15_Witness ==
    /\ call.op \in MultOps
    /\ call.P = None
    /\ call.a >= 5
    /\ call.R = None

\* C16: main_v6.py multiply_point(P, 0) is the Identity for every P,
\* multiply_point(Identity, k) is the Identity for every k >= 0, and
\* multiply_point never raises, in particular not when a doubling on the way
\* yields the Identity (a point with y = 0 and k >= 2).
C16_MultiplyPointV6Total ==
    call.op = "multiply_point_v6" =>
        /\ (call.a = 0 \/ call.P = None) => call.R = None
        /\ ~IsExc(call.R)

\* C17: the signing loop is bounded by a hard cap: once every draw up to the
\* cap has been rejected the call reports an error, so no signing call is still
\* in its loop, without an outcome, after that many rejected draws.  MaxDraws
\* stands for the cap.
C17_RetryLoopCapped ==
    (pc = "signing" /\ draws >= MaxDraws) => sig.status = "raise"

\* C18: when generate_signature and check_signature calls on one object are
\* interleaved statement by statement, the key not being regenerated meanwhile,
\* every finished pass of a signing call and every finished verification has
\* the outcome the call has when run alone with the same inputs and nonce.
C18_InterleavedAsAlone ==
    \A i \in Calls :
        /\ (frames[i].fn = "generate_signature" /\ frames[i].out.status # "none")
              => Step(frames[i].out.status, frames[i].out.r, frames[i].out.s)
                    = generate_signature_pass(secret_key, digest_main(frames[i].data),
                                              frames[i].out.k)
        /\ (frames[i].fn = "check_signature" /\ frames[i].pc = "done")
              => Verdict(frames[i].out.status, frames[i].out.ret, frames[i].out.arith)
                    = check_signature(frames[i].data, frames[i].r, frames[i].s,
                                      frames[i].Q)

\* a signature returned and a verification that reached its comparison, by
\* calls on different files that ran while the other was inside its call
C18_Witness ==
    \E i \in Calls, j \in Calls :
        /\ frames[i].fn = "generate_signature"
        /\ frames[i].pc = "done"
        /\ frames[i].out.status = "ok"
        /\ frames[i].mixed
        /\ frames[j].fn = "check_signature"
        /\ frames[j].pc = "done"
        /\ frames[j].out.arith
        /\ frames[j].mixed
        /\ frames[j].data # frames[i].data

\* C19: main_v2.py point_add(P, Q) of two affine points of the curve with
\* x_P # x_Q returns the chord sum without raising, whichever x is the larger,
\* and so gives the same result with its arguments exchanged.
C19_ChordSumV2 ==
    ( /\ call.op = "point_add_v2"
      /\ call.P \in CurvePoints
      /\ call.Q \in CurvePoints
      /\ call.P.x # call.Q.x )
        => /\ call.R = EcAdd(call.P, call.Q)
           /\ call.R = point_add_v2(call.Q, call.P)

\* C20: main_v6.py add_points of two affine points of the curve returns None
\* only for mutually inverse points or a doubled point with y = 0, and for
\* x_P # x_Q returns the chord sum, whichever x is the larger; so
\* multiply_point(G, k) is the k-fold repeated sum of G.
C20_ChordSumV6 ==
    /\ ( /\ call.op = "add_points"
         /\ call.P \in CurvePoints
         /\ call.Q \in CurvePoints )
           => /\ call.R = None => call.Q = Negated(call.P)
              /\ call.P.x # call.Q.x => call.R = EcAdd(call.P, call.Q)
    /\ (call.op = "multiply_point_v6" /\ call.P = params.G)
           => call.R = EcMul(call.a, params.G)

\* the Identity and the affine points of the curve
GroupElements == {None} \cup CurvePoints

\* C21: in main.py, for an odd prime p and two inputs that are each the Identity
\* or an affine point of the curve with coordinates in [0, p), curve_point_sum
\* never raises and returns the Identity or an affine point of the curve with
\* coordinates in [0, p).
C21_SumClosed ==
    ( /\ call.op = "curve_point_sum"
      /\ params.p > 2 /\ IsPrime(params.p)
      /\ call.P \in GroupElements
      /\ call.Q \in GroupElements )
        => (call.R = None \/ OnCurve(call.R))

\* a chord through two points, the second with the smaller x, and its third point
C21_Witness ==
    /\ call.op = "curve_point_sum"
    /\ call.P \in CurvePoints
    /\ call.Q \in CurvePoints
    /\ call.Q.x < call.P.x
    /\ OnCurve(call.R)

\* the k-fold sum P + ... + P by curve_point_sum, from the Identity
RECURSIVE RepeatedSum(_, _)
RepeatedSum(k, P) ==
    IF k = 0 THEN None
    ELSE CHOOSE R \in {curve_point_sum(prev, P) : prev \in {RepeatedSum(k - 1, P)}} : TRUE

\* C22: in main.py, for every point P of the curve and every k >= 0,
\* multiply_point(k, P) is the k-fold repeated curve_point_sum of P; so when
\* q*P is the Identity, multiply_point(k, P) is the Identity for k mod q = 0 and
\* multiply_point(k + q, P) = multiply_point(k, P), the factor not being reduced.
C22_DoubleAndAdd ==
    (call.op = "multiply_point" /\ call.P \in CurvePoints)
        => /\ call.R = RepeatedSum(call.a, call.P)
           /\ call.R = EcMul(call.a, call.P)
           /\ RepeatedSum(params.q, call.P) = None
                 => /\ call.a % params.q = 0 => call.R = None
                    /\ call.a >= params.q
                          => call.R = multiply_point(call.a - params.q, call.P)

\* a point of order q multiplied by a factor above q that is no multiple of q
C22_Witness ==
    /\ call.op = "multiply_point"
    /\ call.P \in CurvePoints
    /\ RepeatedSum(params.q, call.P) = None
    /\ call.a > params.q
    /\ call.a % params.q # 0
    /\ call.R # None
    /\ call.R = RepeatedSum(call.a - params.q, call.P)

\* C23: doubling an affine point with y = 0 yields the Identity and raises
\* nothing, also where the doubling branch has no test of y == 0 (main.py
\* curve_point_sum, main_v2.py point_add): the inverse of 0 is never asked for.
C23_TwoTorsionDoubling ==
    ( /\ call.op \in AddOps
      /\ call.P.kind = "pt"
      /\ call.P.y = 0
      /\ call.Q = call.P )
        => call.R = None

\* the point of order two of the curve of even order, doubled by main_v2.py
C23_Witness ==
    /\ call.op = "point_add_v2"
    /\ call.P \in CurvePoints
    /\ call.P.y = 0
    /\ call.Q = call.P
    /\ call.R = None

\* C24: in main.py the digest value used in generate_signature and in
\* check_signature is the same function of the data and lies in [1, q-1] (hash
\* mod q, 0 replaced by 1); so check_signature never inverts a value that is 0
\* modulo q, and the inverse of the digest cannot fail during verification.
C24_DigestInRange ==
    variant = "main" =>
        /\ pc = "signing"
              => /\ hash_val = digest_main(data)
                 /\ 1 <= hash_val /\ hash_val <= ORDER - 1
        /\ ver.status # "none"
              => /\ 1 <= digest_main(ver.e) /\ digest_main(ver.e) <= ORDER - 1
                 /\ inverse_modulo(digest_main(ver.e), ORDER) # NoInv
                 /\ ~(ver.status = "raise" /\ ~ver.arith)

\* a file whose hash is 0 modulo q, signed and verified
C24_Witness ==
    /\ variant = "main"
    /\ ver.status = "ret"
    /\ ver.arith
    /\ ver.ret
    /\ PyMod(ver.e, ORDER) = 0

\* C25: in the signing loops of main_v2.py and main_v6.py a nonce k whose
\* point k*G is the Identity is discarded and another is drawn; no nonce makes
\* the signing call raise, neither by indexing an Identity R nor in the point
\* arithmetic that computes R.
C25_SigningNeverRaises ==
    variant \in {"v2", "v6"} => sig.status # "raise"

\* the inverse of e modulo the prime q, by its defining congruence
RefInverse(e, q) == CHOOSE w \in 0..(q - 1) : (e * w) % q = 1

\* R' = (s * inverse(e) mod q) * G + ((-r * inverse(e)) mod q) * Q
RefVerifyPoint(e, r, s, Q) ==
    CHOOSE R \in
      {EcAdd(EcMul((s * w) % params.q, params.G),
             EcMul(((0 - r) * w) % params.q, Q)) :
         w \in {RefInverse(e, params.q)}} : TRUE

\* R' is not the Identity and (R'.x mod q) = r
RefVerdict(R, r) == R # None /\ R.x % params.q = r

\* a verification of main.py of r, s in [1, q) and a public key on the curve
VerifiedOnCurve ==
    /\ variant = "main"
    /\ ver.status # "none"
    /\ 1 <= ver.r /\ ver.r < params.q
    /\ 1 <= ver.s /\ ver.s < params.q
    /\ OnCurve(ver.Q)

\* C26: main.py check_signature computes exactly the verification predicate:
\* for r, s in [1, q) and a public key Q on the curve it returns True if and only
\* if R' = (s*inverse(e) mod q)*G + ((-r*inverse(e)) mod q)*Q is not the Identity
\* and (R'.x mod q) = r; it returns False whenever R' is the Identity.
C26_VerificationPredicate ==
    VerifiedOnCurve
        => /\ ver.status = "ret"
           /\ ver.ret = RefVerdict(RefVerifyPoint(digest_main(ver.e), ver.r, ver.s, ver.Q),
                                   ver.r)

\* a signature whose R' is the Identity, rejected
C26_Witness ==
    /\ VerifiedOnCurve
    /\ RefVerifyPoint(digest_main(ver.e), ver.r, ver.s, ver.Q) = None
    /\ ver.status = "ret"
    /\ ~ver.ret

\* C27: main1.py verify_file rejects every decoded public key that is not a
\* point of the curve with coordinates in [0, p) before any point arithmetic,
\* and never raises for any key and any integers r, s.
C27_BadKeyRejected ==
    call.op = "verify_file_main1"
        => /\ ~OnCurve(call.P) => call.msg = "not_on_curve"
           /\ call.msg # "ValueError"

\* a step of generate_signature or of check_signature: the signing call starts,
\* makes a pass or ends, or a verification returns
SignOrCheckStep ==
    \/ pc' # pc
    \/ draws' # draws
    \/ sig' # sig /\ sig'.status # "none"
    \/ ver' # ver /\ ver'.status # "none"

\* a step of create_keypair: its outcome is recorded and the key it drew is stored
CreateKeypairStep ==
    /\ kg'.status \in {"ok", "raise"}
    /\ kg'.d = secret_key'
    /\ UNCHANGED <<pc, draws, ver>>

===========================================================================
